---- MODULE Spec2Model ----
(***************************************************************************)
(* Model of the server-log-analysis repository:                            *)
(*   src/server_log_dashboard.py  parse_log_line, load_log_data and the    *)
(*                                filter / key-metrics part of main        *)
(*   src/test_file_generator.py   LogGenerator (generate_log_entry,        *)
(*                                generate_bytes_sent, generate_logs)      *)
(*                                                                         *)
(* Log lines are TLA+ strings; a character is a string of length one.      *)
(* Python's \s, \d and \w are modelled on their ASCII members.             *)
(***************************************************************************)
EXTENDS Integers, Sequences, FiniteSets, TLC

(***************************************************************************)
(* Characters and character classes of the regular expression              *)
(***************************************************************************)

Ch(s, i) == IF 1 <= i /\ i <= Len(s) THEN SubSeq(s, i, i) ELSE ""

Digits == {"0", "1", "2", "3", "4", "5", "6", "7", "8", "9"}

UpperLetters ==
    {"A", "B", "C", "D", "E", "F", "G", "H", "I", "J", "K", "L", "M",
     "N", "O", "P", "Q", "R", "S", "T", "U", "V", "W", "X", "Y", "Z"}

LowerLetters ==
    {"a", "b", "c", "d", "e", "f", "g", "h", "i", "j", "k", "l", "m",
     "n", "o", "p", "q", "r", "s", "t", "u", "v", "w", "x", "y", "z"}

\* \s
Whitespace == {" ", "\t", "\n", "\r", "\f"}

\* \w
WordChars == Digits \cup UpperLetters \cup LowerLetters \cup {"_"}

\* [\w:/]
DateChars == WordChars \cup {":", "/"}

\* Membership of the character c (never "") in a class of the pattern:
\* "S" is \S, "s" is \s, "d" is \d, "D" is [\w:/], "Q" is [^"].
InClass(tag, c) ==
    CASE tag = "S" -> c \notin Whitespace
      [] tag = "s" -> c \in Whitespace
      [] tag = "d" -> c \in Digits
      [] tag = "D" -> c \in DateChars
      [] tag = "Q" -> c /= "\""

\* The position after the longest run of class characters that starts at i
\* (i itself when there is none): what a greedy X+ or X* consumes.
RECURSIVE RunEnd(_, _, _)
RunEnd(s, i, tag) ==
    IF i <= Len(s) /\ InClass(tag, Ch(s, i))
    THEN RunEnd(s, i + 1, tag)
    ELSE i

\* The literal lit stands at position i of s.
Lit(s, i, lit) ==
    /\ i >= 1
    /\ i + Len(lit) - 1 <= Len(s)
    /\ SubSeq(s, i, i + Len(lit) - 1) = lit

(***************************************************************************)
(* int() and str() on decimal integers                                     *)
(***************************************************************************)

DigitVal(c) ==
    CASE c = "0" -> 0 [] c = "1" -> 1 [] c = "2" -> 2 [] c = "3" -> 3
      [] c = "4" -> 4 [] c = "5" -> 5 [] c = "6" -> 6 [] c = "7" -> 7
      [] c = "8" -> 8 [] c = "9" -> 9

DigitChr(d) ==
    CASE d = 0 -> "0" [] d = 1 -> "1" [] d = 2 -> "2" [] d = 3 -> "3"
      [] d = 4 -> "4" [] d = 5 -> "5" [] d = 6 -> "6" [] d = 7 -> "7"
      [] d = 8 -> "8" [] d = 9 -> "9"

\* int(s) for a string of decimal digits.
RECURSIVE StrToNat(_)
StrToNat(s) ==
    IF Len(s) = 0 THEN 0
    ELSE 10 * StrToNat(SubSeq(s, 1, Len(s) - 1)) + DigitVal(Ch(s, Len(s)))

RECURSIVE NatToStr(_)
NatToStr(n) ==
    IF n < 10 THEN DigitChr(n)
    ELSE NatToStr(n \div 10) \o DigitChr(n % 10)

\* str(n), as an f-string formats an int: a minus sign for a negative one.
IntToStr(n) == IF n < 0 THEN "-" \o NatToStr(-n) ELSE NatToStr(n)

\* %d, %H, %M, %S of strftime: two digits, zero padded.
Pad2(n) == IF n < 10 THEN "0" \o NatToStr(n) ELSE NatToStr(n)

\* All characters of s[i..j] are digits.
AllDigits(s, i, j) == \A k \in i..j : Ch(s, k) \in Digits


(***************************************************************************)
(* datetime: strptime and strftime with the formats the code uses          *)
(***************************************************************************)

\* %b in the C locale, as strftime writes it and as strptime's
\* case-insensitive pattern reads it once folded to lower case.
MonthNames ==
    <<"Jan", "Feb", "Mar", "Apr", "May", "Jun",
      "Jul", "Aug", "Sep", "Oct", "Nov", "Dec">>

UpperSeq == "ABCDEFGHIJKLMNOPQRSTUVWXYZ"
LowerSeq == "abcdefghijklmnopqrstuvwxyz"

LowerOf == [c \in UpperLetters |->
               Ch(LowerSeq, CHOOSE k \in 1..26 : Ch(UpperSeq, k) = c)]

LowerChar(c) == IF c \in UpperLetters THEN LowerOf[c] ELSE c

RECURSIVE LowerStr(_)
LowerStr(s) ==
    IF Len(s) = 0 THEN ""
    ELSE LowerChar(Ch(s, 1)) \o LowerStr(SubSeq(s, 2, Len(s)))

MonthNamesLower == [m \in 1..12 |-> LowerStr(MonthNames[m])]

IsLeap(y) == (y % 4 = 0 /\ y % 100 /= 0) \/ y % 400 = 0

DaysInMonth(y, m) ==
    IF m = 2 THEN (IF IsLeap(y) THEN 29 ELSE 28)
    ELSE IF m \in {4, 6, 9, 11} THEN 30 ELSE 31

ValueError == [exc |-> "ValueError"]

\* A one- or two-digit field of strptime (%d, %H, %M, %S) at position i that
\* the literal stop must follow: the two-digit alternatives of its pattern
\* come first (values lo2..hi), then the single digit (values lo1..9).
\* Gives <<value, position after the field>>, or <<-1, 0>>.
NumField(s, i, lo2, lo1, hi, stop) ==
    IF /\ AllDigits(s, i, i + 1)
       /\ i + 1 <= Len(s)
       /\ StrToNat(SubSeq(s, i, i + 1)) \in lo2..hi
       /\ (stop = "" \/ Lit(s, i + 2, stop))
    THEN <<StrToNat(SubSeq(s, i, i + 1)), i + 2>>
    ELSE IF /\ Ch(s, i) \in Digits
            /\ DigitVal(Ch(s, i)) \in lo1..9
            /\ (stop = "" \/ Lit(s, i + 1, stop))
    THEN <<DigitVal(Ch(s, i)), i + 1>>
    ELSE <<-1, 0>>

\* datetime.strptime(s, '%d/%b/%Y:%H:%M:%S %z'): the datetime, or ValueError
\* when s does not match the format, text remains after it, or the fields
\* are no calendar date and time.  The offset is in minutes.
strptime(s) ==
    LET d  == NumField(s, 1, 1, 1, 31, "/")
        mb == d[2] + 1
        mn == LowerStr(SubSeq(s, mb, mb + 2))
        ms == {m \in 1..12 : MonthNamesLower[m] = mn}
        yb == mb + 4
        hh == NumField(s, yb + 5, 0, 0, 23, ":")
        mi == NumField(s, hh[2] + 1, 0, 0, 59, ":")
        ss == NumField(s, mi[2] + 1, 0, 0, 61, "")
        zb == RunEnd(s, ss[2], "s")
    IN  IF d[1] < 0 THEN ValueError
        ELSE IF mb + 2 > Len(s) \/ ms = {} \/ ~Lit(s, mb + 3, "/") THEN ValueError
        ELSE IF ~(yb + 3 <= Len(s) /\ AllDigits(s, yb, yb + 3) /\ Lit(s, yb + 4, ":"))
        THEN ValueError
        ELSE IF hh[1] < 0 THEN ValueError
        ELSE IF mi[1] < 0 THEN ValueError
        ELSE IF ss[1] < 0 THEN ValueError
        \* \s+ of the format, then %z: sign, two digits, [0-5], one digit
        ELSE IF zb = ss[2] THEN ValueError
        ELSE IF ~(/\ Ch(s, zb) \in {"+", "-"}
                  /\ zb + 4 = Len(s)
                  /\ AllDigits(s, zb + 1, zb + 4)
                  /\ DigitVal(Ch(s, zb + 3)) <= 5)
        THEN ValueError
        ELSE LET y  == StrToNat(SubSeq(s, yb, yb + 3))
                 m  == CHOOSE m \in ms : TRUE
                 oz == 60 * StrToNat(SubSeq(s, zb + 1, zb + 2))
                         + StrToNat(SubSeq(s, zb + 3, zb + 4))
             IN  IF y < 1 \/ d[1] > DaysInMonth(y, m) \/ ss[1] > 59
                 THEN ValueError
                 ELSE [year |-> y, month |-> m, day |-> d[1],
                       hour |-> hh[1], minute |-> mi[1], second |-> ss[1],
                       utcoffset |-> IF Ch(s, zb) = "-" THEN -oz ELSE oz]

\* timestamp.strftime("%d/%b/%Y:%H:%M:%S") for a four-digit year; the
\* microseconds of the datetime are not written.
strftime(t) ==
    Pad2(t.day) \o "/" \o MonthNames[t.month] \o "/" \o NatToStr(t.year)
      \o ":" \o Pad2(t.hour) \o ":" \o Pad2(t.minute) \o ":" \o Pad2(t.second)


(***************************************************************************)
(* parse_log_line (server_log_dashboard.py)                                *)
(***************************************************************************)

None == [none |-> TRUE]

NoMatch == [ok |-> FALSE, end |-> 0, groups |-> <<>>]

\* re.match(pattern, line) for
\*   (\S+) (\S+) (\S+) \[([\w:/]+\s[+\-]\d{4})\] "(\S+) (\S+) (\S+)"
\*   (\d{3}) (\d+) "([^"]*)" "([^"]*)" (\d+)
\* anchored at the start of the line only.  Every greedy run is followed by a
\* literal outside its class (or, for the third quoted token, by the quote
\* and the space that end the run), so the only split that can match is the
\* longest run; end is the position after the last character matched.
re_match(line) ==
    LET a1 == RunEnd(line, 1, "S")
        a2 == RunEnd(line, a1 + 1, "S")
        a3 == RunEnd(line, a2 + 1, "S")
        b0 == a3 + 2
        b1 == RunEnd(line, b0, "D")
        b2 == b1 + 6
        c0 == b2 + 3
        c1 == RunEnd(line, c0, "S")
        c2 == RunEnd(line, c1 + 1, "S")
        c3 == RunEnd(line, c2 + 1, "S")
        d0 == c3 + 1
        e0 == d0 + 4
        e1 == RunEnd(line, e0, "d")
        f0 == e1 + 2
        f1 == RunEnd(line, f0, "Q")
        g0 == f1 + 3
        g1 == RunEnd(line, g0, "Q")
        h0 == g1 + 2
        h1 == RunEnd(line, h0, "d")
    IN  IF /\ a1 > 1 /\ Lit(line, a1, " ")
           /\ a2 > a1 + 1 /\ Lit(line, a2, " ")
           /\ a3 > a2 + 1 /\ Lit(line, a3, " [")
           /\ b1 > b0
           /\ Ch(line, b1) \in Whitespace
           /\ Ch(line, b1 + 1) \in {"+", "-"}
           /\ b1 + 5 <= Len(line) /\ AllDigits(line, b1 + 2, b1 + 5)
           /\ Lit(line, b2, "] \"")
           /\ c1 > c0 /\ Lit(line, c1, " ")
           /\ c2 > c1 + 1 /\ Lit(line, c2, " ")
           /\ c3 - 1 > c2 + 1 /\ Lit(line, c3 - 1, "\" ")
           /\ d0 + 2 <= Len(line) /\ AllDigits(line, d0, d0 + 2)
           /\ Lit(line, d0 + 3, " ")
           /\ e1 > e0 /\ Lit(line, e1, " \"")
           /\ Lit(line, f1, "\" \"")
           /\ Lit(line, g1, "\" ")
           /\ h1 > h0
        THEN [ok |-> TRUE, end |-> h1,
              groups |-> << SubSeq(line, 1, a1 - 1),
                            SubSeq(line, a1 + 1, a2 - 1),
                            SubSeq(line, a2 + 1, a3 - 1),
                            SubSeq(line, b0, b2 - 1),
                            SubSeq(line, c0, c1 - 1),
                            SubSeq(line, c1 + 1, c2 - 1),
                            SubSeq(line, c2 + 1, c3 - 2),
                            SubSeq(line, d0, d0 + 2),
                            SubSeq(line, e0, e1 - 1),
                            SubSeq(line, f0, f1 - 1),
                            SubSeq(line, g0, g1 - 1),
                            SubSeq(line, h0, h1 - 1) >>]
        ELSE NoMatch

\* parse_log_line(line): the record, None when the pattern does not match,
\* or the ValueError that strptime raises through it.  The browser, os and
\* device entries come from the user_agents library (not part of the
\* repository) and are left out of the record.
parse_log_line(line) ==
    LET match == re_match(line)
        g == match.groups
        datetime_obj == strptime(g[4])
    IN  IF match.ok
        THEN IF datetime_obj = ValueError
             THEN ValueError
             ELSE [ip |-> g[1],
                   remote_log_name |-> g[2],
                   user_id |-> g[3],
                   datetime |-> datetime_obj,
                   method |-> g[5],
                   api |-> g[6],
                   protocol |-> g[7],
                   status |-> StrToNat(g[8]),
                   bytes_sent |-> StrToNat(g[9]),
                   referrer |-> g[10],
                   ua_string |-> g[11],
                   response_time |-> StrToNat(g[12])]
        ELSE None

\* str.strip(): leading and trailing whitespace removed.
RECURSIVE RStripEnd(_, _)
RStripEnd(s, j) ==
    IF j >= 1 /\ Ch(s, j) \in Whitespace THEN RStripEnd(s, j - 1) ELSE j

strip(s) == SubSeq(s, RunEnd(s, 1, "s"), RStripEnd(s, Len(s)))


(***************************************************************************)
(* LogGenerator (test_file_generator.py): tables and the per-entry draws   *)
(***************************************************************************)

\* self.endpoints, self.methods, self.status_codes and self.user_agents:
\* <<key, weight in hundredths>>, in the order the dict holds them.
endpoints ==
    << <<"/api/users", 20>>, <<"/api/products", 25>>, <<"/api/orders", 20>>,
       <<"/api/auth/login", 10>>, <<"/api/auth/logout", 5>>,
       <<"/api/cart", 10>>, <<"/api/search", 5>>, <<"/health", 3>>,
       <<"/metrics", 2>> >>

methods == << <<"GET", 60>>, <<"POST", 20>>, <<"PUT", 10>>, <<"DELETE", 10>> >>

status_codes ==
    << <<200, 75>>, <<201, 5>>, <<301, 2>>, <<304, 3>>, <<400, 5>>,
       <<401, 3>>, <<403, 2>>, <<404, 3>>, <<500, 2>> >>

user_agents ==
    << <<"Mozilla/5.0 (Windows NT 10.0; Win64; x64) AppleWebKit/537.36 (KHTML, like Gecko) Chrome/91.0.4472.124 Safari/537.36", 40>>,
       <<"Mozilla/5.0 (Macintosh; Intel Mac OS X 10_15_7) AppleWebKit/605.1.15 (KHTML, like Gecko) Version/14.1.1 Safari/605.1.15", 20>>,
       <<"Mozilla/5.0 (Windows NT 10.0; Win64; x64; rv:89.0) Gecko/20100101 Firefox/89.0", 15>>,
       <<"Mozilla/5.0 (iPhone; CPU iPhone OS 14_6 like Mac OS X) AppleWebKit/605.1.15 (KHTML, like Gecko) Version/14.1.1 Mobile/15E148 Safari/604.1", 10>>,
       <<"Mozilla/5.0 (Linux; Android 11; SM-G991B) AppleWebKit/537.36 (KHTML, like Gecko) Chrome/91.0.4472.120 Mobile Safari/537.36", 10>>,
       <<"Mozilla/5.0 (Windows NT 10.0; Win64; x64) AppleWebKit/537.36 (KHTML, like Gecko) Chrome/91.0.4472.124 Safari/537.36 Edg/91.0.864.59", 5>> >>

\* random.random() in hundredths: the draws of the model, around the
\* thresholds the code compares a draw with.
RandomDraws == {0, 29, 30, 69, 70, 89, 90, 99}

RECURSIVE CumWeight(_, _)
CumWeight(choices_dict, i) ==
    IF i = 0 THEN 0 ELSE CumWeight(choices_dict, i - 1) + choices_dict[i][2]

\* weighted_choice(choices_dict) when random.choices draws r: the first key
\* whose cumulative weight exceeds r * total (the last key at most).
weighted_choice(choices_dict, r) ==
    LET n == Len(choices_dict)
        total == CumWeight(choices_dict, n)
        hit == {i \in 1..n : CumWeight(choices_dict, i) * 100 > r * total}
        i == IF hit = {} THEN n ELSE CHOOSE k \in hit : \A j \in hit : k <= j
    IN  choices_dict[i][1]

\* The "regular visitor" addresses of generate_ip.
RegularIps ==
    {"192.168.1.100", "10.0.0.50", "172.16.0.100", "192.168.0.200", "10.0.0.25"}

\* Values fake.ipv4() and fake.uri() return in the model (Faker is not part
\* of the repository): a dotted quad, and a URI without quote or space.
FakeIps == {"203.0.113.7"}
FakeUris == {"https://www.example.com/app/main/"}

\* generate_ip(): r is the random.random() draw.
generate_ip(r) == IF r < 30 THEN RegularIps ELSE FakeIps

\* fake.uri() if random.random() < 0.3 else "-"
generate_referrer(r) == IF r < 30 THEN FakeUris ELSE {"-"}

\* int(x) for a float x given in tenths: truncation toward zero.
int(x10) == IF x10 >= 0 THEN x10 \div 10 ELSE -((-x10) \div 10)

\* Draws of numpy, in tenths.  A log-normal variate is positive; a normal
\* variate has every real as a possible value, so normal(500, 100) and
\* normal(500000, 100000) include values below zero.
LogNormalDraws8 == {4, 29809}
NormalDraws500 == {-35, -4, 5127}
NormalDraws500000 == {-12, 4982113}
LogNormalDraws3 == {3, 201}

\* generate_bytes_sent(): the values it can return when random.random()
\* gave distribution_type (hundredths).
generate_bytes_sent(distribution_type) ==
    IF distribution_type < 70
    THEN {int(x) : x \in LogNormalDraws8}
    ELSE IF distribution_type < 90
    THEN {int(x) : x \in NormalDraws500}
    ELSE {int(x) : x \in NormalDraws500000}

\* generate_response_time()
generate_response_time == {int(x) : x \in LogNormalDraws3}

\* The f-string of generate_log_entry for the drawn values.
log_entry(ip, timestamp, method, endpoint, status_code, bytes_sent, referrer, ua, response_time) ==
    ip \o " - - "
       \o "[" \o strftime(timestamp) \o " +0000] "
       \o "\"" \o method \o " " \o endpoint \o " HTTP/1.1\" "
       \o IntToStr(status_code) \o " " \o IntToStr(bytes_sent) \o " "
       \o "\"" \o referrer \o "\" \"" \o ua \o "\" "
       \o IntToStr(response_time) \o "\n"


(***************************************************************************)
(* State                                                                   *)
(***************************************************************************)

VARIABLES
    \* load_log_data
    lines,          \* the lines of the file, each as the iteration yields it
    idx,            \* the line the for loop is at
    data,           \* the list of parsed records
    data_src,       \* history: for each record of data, the line it came from
    cur_line,       \* the argument of the last parse_log_line call
    parsed,         \* the result of the last parse_log_line call
    load_pc,        \* "loop", "returned" or "raised"
    \* LogGenerator.generate_log_entry, followed by a parse of its line
    entry,          \* the timestamp and, once drawn, the values of the entry
    entry_line,     \* the line generate_log_entry returned
    entry_parsed,   \* the result of parse_log_line on that line
    entry_pc,       \* "start", "generated" or "parsed"
    \* LogGenerator.generate_logs
    num_lines,      \* the requested number of lines
    end_time,       \* datetime.now() at the call
    current_time,   \* the start of the minute the while loop is at
    timestamps,     \* the list of timestamps
    generated,      \* history: the sorted list before it was sampled
    lam,            \* history: <<start of the last minute, its Poisson mean>>
    out_file,       \* the timestamps of the lines written, or None
    printed,        \* the count the final message reports, or None
    gen_pc,         \* "loop", "write", "done" or "raised"
    \* main of the dashboard, from the loaded DataFrame on
    df,             \* the DataFrame load_log_data returned: a list of records
    date_cmp,       \* what comparing a date with a pd.Timestamp does
    date_range,     \* the two dates of the date_input widget
    sel_status,     \* status_codes: the selected status codes
    sel_methods,    \* methods: the selected request methods
    filtered_df,    \* df[mask]
    metrics,        \* the values shown under "Key Metrics", or None
    dash_exc,       \* the exception that ended main, or "none"
    dash_pc         \* "widgets", "filter", "metrics", "done" or "raised"

loadVars == <<lines, idx, data, data_src, cur_line, parsed, load_pc>>
entryVars == <<entry, entry_line, entry_parsed, entry_pc>>
genVars == <<num_lines, end_time, current_time, timestamps, generated, lam,
             out_file, printed, gen_pc>>
dashVars == <<df, date_cmp, date_range, sel_status, sel_methods, filtered_df,
              metrics, dash_exc, dash_pc>>
vars == <<loadVars, entryVars, genVars, dashVars>>

(***************************************************************************)
(* load_log_data (server_log_dashboard.py)                                 *)
(***************************************************************************)

MaxLines == 3

ScenarioLine ==
    "192.168.1.1 - - [10/Oct/2023:13:55:36 +0000] \"GET /api/users HTTP/1.1\" 200 1024 \"-\" \"Mozilla/5.0 (Windows NT 10.0; Win64; x64)\" 45"

GeneratedLine ==
    log_entry("10.0.0.50",
              [year |-> 2023, month |-> 10, day |-> 11, hour |-> 8,
               minute |-> 0, second |-> 7, microsecond |-> 250000],
              "POST", "/api/orders", 404, 2980,
              "https://www.example.com/app/main/",
              "Mozilla/5.0 (Windows NT 10.0; Win64; x64; rv:89.0) Gecko/20100101 Firefox/89.0",
              20)

\* Lines that follow the grammar from the first character to the last.
WellFormedLines == {ScenarioLine \o "\n", GeneratedLine}

\* Lines that do not: free text, the right shape with a date that is no
\* calendar date, text after RESPONSE_TIME, a status that is no number.
MalformedLines ==
    {"not a valid log line\n",
     "192.168.1.7 - - [31/Feb/2023:13:55:36 +0000] \"GET /api/cart HTTP/1.1\" 200 10 \"-\" \"curl/8.0\" 45\n",
     "192.168.1.8 - - [10/Oct/2023:13:55:37 +0000] \"GET /api/cart HTTP/1.1\" 200 10 \"-\" \"curl/8.0\" 45 trailing junk\n",
     "192.168.1.9 - - [10/Oct/2023:13:55:38 +0000] \"GET /api/cart HTTP/1.1\" 2x0 10 \"-\" \"curl/8.0\" 45\n"}

BlankLines == {"\n", "  \t\n"}

LinePool == WellFormedLines \cup MalformedLines \cup BlankLines

Files == UNION {[1..n -> LinePool] : n \in 0..MaxLines}

LoadIdle ==
    /\ lines = <<>> /\ idx = 0 /\ data = <<>> /\ data_src = <<>>
    /\ cur_line = "" /\ parsed = None /\ load_pc = "idle"

LoadInit ==
    /\ lines \in Files
    /\ idx = 1
    /\ data = <<>>
    /\ data_src = <<>>
    /\ cur_line = ""
    /\ parsed = None
    /\ load_pc = "loop"

\* One iteration of "for line in f": strip, parse, append when a record came
\* back.  A ValueError from parse_log_line is caught nowhere and ends
\* load_log_data.
LoadLine ==
    /\ load_pc = "loop"
    /\ idx <= Len(lines)
    /\ cur_line' = strip(lines[idx])
    /\ parsed' = parse_log_line(cur_line')
    /\ IF parsed' = ValueError
       THEN /\ load_pc' = "raised"
            /\ UNCHANGED <<idx, data, data_src>>
       ELSE /\ idx' = idx + 1
            /\ load_pc' = "loop"
            /\ IF parsed' /= None
               THEN /\ data' = Append(data, parsed')
                    /\ data_src' = Append(data_src, idx)
               ELSE UNCHANGED <<data, data_src>>
    /\ UNCHANGED <<lines, entryVars, genVars, dashVars>>

\* The loop is over: return pd.DataFrame(data).
LoadReturn ==
    /\ load_pc = "loop"
    /\ idx > Len(lines)
    /\ load_pc' = "returned"
    /\ UNCHANGED <<lines, idx, data, data_src, cur_line, parsed, entryVars, genVars,
                   dashVars>>

\* load_log_data keeps the parsed records only: it has no list of the lines
\* that did not parse, so the failure entries it records are none.
failure_entries == <<>>

(***************************************************************************)
(* LogGenerator.generate_log_entry, and the parse of the line it returns   *)
(***************************************************************************)

EntryTimestamps ==
    {[year |-> 2024, month |-> 2, day |-> 29, hour |-> 8, minute |-> 5,
      second |-> 9, microsecond |-> 999999]}

EntryIdle ==
    /\ entry = None /\ entry_line = "" /\ entry_parsed = None
    /\ entry_pc = "idle"

EntryInit ==
    /\ entry \in {[timestamp |-> t] : t \in EntryTimestamps}
    /\ entry_line = ""
    /\ entry_parsed = None
    /\ entry_pc = "start"

\* The values one call can draw, gathered over the draws of the model.
MethodDraws == {weighted_choice(methods, r) : r \in RandomDraws}
EndpointDraws == {weighted_choice(endpoints, r) : r \in RandomDraws}
StatusDraws == {weighted_choice(status_codes, r) : r \in RandomDraws}
UserAgentDraws == {weighted_choice(user_agents, r) : r \in RandomDraws}
IpDraws == UNION {generate_ip(r) : r \in RandomDraws}
BytesSentDraws == UNION {generate_bytes_sent(r) : r \in RandomDraws}
ReferrerDraws == UNION {generate_referrer(r) : r \in RandomDraws}

generate_log_entry ==
    /\ entry_pc = "start"
    /\ \E method \in MethodDraws,
          endpoint \in EndpointDraws,
          status_code \in StatusDraws,
          referrer \in ReferrerDraws,
          ip \in IpDraws,
          bytes_sent \in BytesSentDraws,
          ua \in UserAgentDraws,
          response_time \in generate_response_time :
            /\ entry' = [timestamp |-> entry.timestamp, ip |-> ip,
                         method |-> method, endpoint |-> endpoint,
                         status_code |-> status_code,
                         bytes_sent |-> bytes_sent,
                         referrer |-> referrer, ua |-> ua,
                         response_time |-> response_time]
            /\ entry_line' = log_entry(ip, entry.timestamp, method,
                                       endpoint, status_code, bytes_sent,
                                       referrer, ua, response_time)
    /\ entry_pc' = "generated"
    /\ UNCHANGED <<entry_parsed, loadVars, genVars, dashVars>>

\* The line is read back as load_log_data reads a line of the file.
ParseEntry ==
    /\ entry_pc = "generated"
    /\ entry_parsed' = parse_log_line(strip(entry_line))
    /\ entry_pc' = "parsed"
    /\ UNCHANGED <<entry, entry_line, loadVars, genVars, dashVars>>

(***************************************************************************)
(* LogGenerator.generate_logs                                              *)
(*                                                                         *)
(* A datetime is [min, us]: whole minutes since the midnight that starts   *)
(* day 0, and microseconds within the minute.                              *)
(***************************************************************************)

MicrosPerMinute == 60000000

\* timedelta(days=7), in minutes, is 10080 in the code; the model's window.
WindowMinutes == 2

Before(t1, t2) == t1.min < t2.min \/ (t1.min = t2.min /\ t1.us < t2.us)

AddMicros(t, d) ==
    [min |-> t.min + (t.us + d) \div MicrosPerMinute,
     us |-> (t.us + d) % MicrosPerMinute]

AddMinutes(t, m) == [min |-> t.min + m, us |-> t.us]

\* current_time.hour
HourOf(t) == (t.min \div 60) % 24

\* random.random() * 60, in units of 1e-7 s: a float below 60.0.
RandomSecondsDraws == {0, 300000004, 599999996}

\* timedelta(seconds=x) for x in units of 1e-7 s: x rounded to the nearest
\* microsecond, a tie to the even one.
timedelta_seconds(x) ==
    LET q == x \div 10
        r == x % 10
    IN  IF r > 5 \/ (r = 5 /\ q % 2 = 1) THEN q + 1 ELSE q

\* Values np.random.poisson returns in the model, for either mean.
PoissonDraws == {0, 1, 2}

\* The mean generate_logs passes to np.random.poisson for a minute.
PoissonMean(hour) == IF 8 <= hour /\ hour <= 18 THEN 5 ELSE 1

\* list.sort(): insertion of each element after the ones not later.
RECURSIVE InsertSorted(_, _)
InsertSorted(s, t) ==
    IF s = <<>> THEN <<t>>
    ELSE IF Before(t, s[Len(s)])
    THEN Append(InsertSorted(SubSeq(s, 1, Len(s) - 1), t), s[Len(s)])
    ELSE Append(s, t)

RECURSIVE sort(_)
sort(s) ==
    IF s = <<>> THEN <<>>
    ELSE InsertSorted(sort(SubSeq(s, 1, Len(s) - 1)), s[Len(s)])

\* random.sample(population, k) for 0 <= k <= len(population): the lists of
\* k elements taken at distinct positions, in any order.
random_sample(population, k) ==
    {[i \in 1..k |-> population[f[i]]] :
        f \in {g \in [1..k -> 1..Len(population)] :
                  \A a, b \in 1..k : a /= b => g[a] /= g[b]}}

\* The second sort left out: the list stays as it was sampled.
resort_skipped(s) == s

\* timestamps.sort() after the sampling (line 146).
resort(s) == sort(s)

\* datetime.now() at the call: times of day whose window reaches 08:00,
\* 18:00 and 19:00, and one inside the working day.
EndTimes ==
    {[min |-> 1 * 1440 + 8 * 60 + 1, us |-> 500000],
     [min |-> 1 * 1440 + 18 * 60 + 1, us |-> 0],
     [min |-> 1 * 1440 + 19 * 60 + 1, us |-> 500000],
     [min |-> 1 * 1440 + 12 * 60 + 30, us |-> 250000]}

\* --lines values of the model.
NumLinesDraws == {-1, 0, 1, 2, 3}

start_time == AddMinutes(end_time, -WindowMinutes)

GenIdle ==
    /\ num_lines = 0 /\ end_time = None /\ current_time = None
    /\ timestamps = <<>> /\ generated = <<>> /\ lam = None
    /\ out_file = None /\ printed = None /\ gen_pc = "idle"

GenInit ==
    /\ num_lines \in NumLinesDraws
    /\ end_time \in EndTimes
    /\ current_time = AddMinutes(end_time, -WindowMinutes)
    /\ timestamps = <<>>
    /\ generated = <<>>
    /\ lam = None
    /\ out_file = None
    /\ printed = None
    /\ gen_pc = "loop"

\* One iteration of "while current_time < end_time" (lines 127-140).
GenMinute ==
    /\ gen_pc = "loop"
    /\ Before(current_time, end_time)
    /\ LET mean == PoissonMean(HourOf(current_time))
       IN  /\ lam' = <<current_time, mean>>
           /\ \E num_entries \in PoissonDraws :
                \E random_seconds \in [1..num_entries -> RandomSecondsDraws] :
                   timestamps' = timestamps \o
                       [i \in 1..num_entries |->
                           AddMicros(current_time,
                                     timedelta_seconds(random_seconds[i]))]
    /\ current_time' = AddMinutes(current_time, 1)
    /\ UNCHANGED <<num_lines, end_time, generated, out_file, printed, gen_pc,
                   loadVars, entryVars, dashVars>>

\* Lines 142-146: sort, sample when there are more than num_lines, sort
\* again.  random.sample raises ValueError for a negative num_lines.
SortSample ==
    /\ gen_pc = "loop"
    /\ ~Before(current_time, end_time)
    /\ generated' = sort(timestamps)
    /\ IF Len(timestamps) > num_lines
       THEN IF num_lines < 0
            THEN /\ gen_pc' = "raised"
                 /\ timestamps' = generated'
            ELSE /\ gen_pc' = "write"
                 /\ \E sample \in random_sample(generated', num_lines) :
                       timestamps' = resort(sample)
       ELSE /\ gen_pc' = "write"
            /\ timestamps' = resort(generated')
    /\ UNCHANGED <<num_lines, end_time, current_time, lam, out_file, printed,
                   loadVars, entryVars, dashVars>>

\* Lines 148-154: one generate_log_entry line per timestamp, in list order,
\* then the message "Generated {num_lines} log entries".
WriteLogs ==
    /\ gen_pc = "write"
    /\ out_file' = timestamps
    /\ printed' = num_lines
    /\ gen_pc' = "done"
    /\ UNCHANGED <<num_lines, end_time, current_time, timestamps, generated,
                   lam, loadVars, entryVars, dashVars>>

(***************************************************************************)
(* main (server_log_dashboard.py): widgets, filter and key metrics         *)
(***************************************************************************)

MaxRows == 2

ThirdLine ==
    log_entry("172.16.0.100",
              [year |-> 2023, month |-> 10, day |-> 12, hour |-> 19,
               minute |-> 30, second |-> 0, microsecond |-> 0],
              "DELETE", "/api/cart", 500, 512, "-",
              "Mozilla/5.0 (Windows NT 10.0; Win64; x64; rv:89.0) Gecko/20100101 Firefox/89.0",
              1234)

\* Records load_log_data can return: the parsed lines of a log file.
RecordPool ==
    {parse_log_line(strip(l)) : l \in WellFormedLines \cup {ThirdLine}}

DataFrames == UNION {[1..n -> RecordPool] : n \in 0..MaxRows}

\* df['datetime'].dt.date
DateOf(rec) == <<rec.datetime.year, rec.datetime.month, rec.datetime.day>>

DateLE(a, b) ==
    \/ a[1] < b[1]
    \/ (a[1] = b[1] /\ a[2] < b[2])
    \/ (a[1] = b[1] /\ a[2] = b[2] /\ a[3] <= b[3])

\* Dates the date_input widget can hold.
DateChoices == {<<2023, 10, 10>>, <<2023, 10, 11>>, <<2023, 10, 12>>}

Column(frame, name) == {frame[i][name] : i \in 1..Len(frame)}

\* The row mask of lines 132-137.
mask(rec) ==
    /\ DateLE(date_range[1], DateOf(rec))
    /\ DateLE(DateOf(rec), date_range[2])
    /\ rec.status \in sel_status
    /\ rec.method \in sel_methods

RECURSIVE SumOf(_, _)
SumOf(frame, name) ==
    IF frame = <<>> THEN 0
    ELSE SumOf(SubSeq(frame, 1, Len(frame) - 1), name) + frame[Len(frame)][name]

NaN == [nan |-> TRUE]

\* Series.mean(): NaN for an empty series, else sum / count, kept as
\* <<sum, count>>.
mean(total, count) == IF count = 0 THEN NaN ELSE <<total, count>>

\* The three values of lines 184-201.
key_metrics(frame) ==
    LET ok == SelectSeq(frame, LAMBDA rec : rec.status < 400)
        rate == mean(Len(ok), Len(frame))
    IN  [avg_response_time |-> mean(SumOf(frame, "response_time"), Len(frame)),
         total_requests |-> Len(frame),
         success_rate |-> IF rate = NaN THEN NaN ELSE <<rate[1] * 100, rate[2]>>]

DashIdle ==
    /\ df = <<>> /\ date_cmp = "idle" /\ date_range = None
    /\ sel_status = {} /\ sel_methods = {} /\ filtered_df = <<>>
    /\ metrics = None /\ dash_exc = "none" /\ dash_pc = "idle"

\* Comparing the datetime.date values of df['datetime'].dt.date with a
\* pd.Timestamp depends on the pandas the dashboard runs with: pandas 1.x
\* compares the dates ("by_date"), pandas from 2.0 on raises TypeError
\* ("Cannot compare Timestamp with datetime.date").
DashInit ==
    /\ df \in DataFrames
    /\ date_cmp \in {"by_date", "TypeError"}
    /\ date_range = None
    /\ sel_status = {}
    /\ sel_methods = {}
    /\ filtered_df = <<>>
    /\ metrics = None
    /\ dash_exc = "none"
    /\ dash_pc = "widgets"

\* Lines 110-129: the three sidebar widgets and what the user selects in
\* them.  A DataFrame made of no records has no 'datetime' column.
SelectFilters ==
    /\ dash_pc = "widgets"
    /\ IF df = <<>>
       THEN /\ dash_pc' = "raised"
            /\ dash_exc' = "KeyError"
            /\ UNCHANGED <<date_range, sel_status, sel_methods>>
       ELSE /\ dash_pc' = "filter"
            /\ date_range' \in DateChoices \X DateChoices
            /\ sel_status' \in SUBSET Column(df, "status")
            /\ sel_methods' \in SUBSET Column(df, "method")
            /\ UNCHANGED dash_exc
    /\ UNCHANGED <<df, date_cmp, filtered_df, metrics, loadVars, entryVars,
                   genVars>>

\* Lines 131-138: the mask, and filtered_df = df[mask].
ApplyFilters ==
    /\ dash_pc = "filter"
    /\ IF date_cmp = "TypeError"
       THEN /\ dash_pc' = "raised"
            /\ dash_exc' = "TypeError"
            /\ UNCHANGED filtered_df
       ELSE /\ dash_pc' = "metrics"
            /\ filtered_df' = SelectSeq(df, mask)
            /\ UNCHANGED dash_exc
    /\ UNCHANGED <<df, date_cmp, date_range, sel_status, sel_methods, metrics,
                   loadVars, entryVars, genVars>>

\* Lines 180-201: the key metrics of filtered_df.
KeyMetrics ==
    /\ dash_pc = "metrics"
    /\ metrics' = key_metrics(filtered_df)
    /\ dash_pc' = "done"
    /\ UNCHANGED <<df, date_cmp, date_range, sel_status, sel_methods,
                   filtered_df, dash_exc, loadVars, entryVars, genVars>>

(***************************************************************************)
(* Specifications                                                          *)
(***************************************************************************)

Init == LoadInit /\ EntryIdle /\ GenIdle /\ DashIdle
Next == LoadLine \/ LoadReturn
Spec == Init /\ [][Next]_vars

EntrySpecInit == EntryInit /\ LoadIdle /\ GenIdle /\ DashIdle
EntryNext == generate_log_entry \/ ParseEntry
SpecEntry == EntrySpecInit /\ [][EntryNext]_vars

GenSpecInit == GenInit /\ LoadIdle /\ EntryIdle /\ DashIdle
GenNext == GenMinute \/ SortSample \/ WriteLogs
SpecGen == GenSpecInit /\ [][GenNext]_vars

DashSpecInit == DashInit /\ LoadIdle /\ EntryIdle /\ GenIdle
DashNext == SelectFilters \/ ApplyFilters \/ KeyMetrics
SpecDash == DashSpecInit /\ [][DashNext]_vars


(***************************************************************************)
(* Properties                                                              *)
(***************************************************************************)

IsRecord(r) == r /= None /\ r /= ValueError

\* C1: a malformed line at any position never raises out of load_log_data
\* and never stops the loop: once loading has ended it has returned, and
\* every well-formed line of the file has its record in data, with the field
\* values the line has on its own, in input order.
C1_MalformedLineNeverStopsLoad ==
    /\ load_pc /= "raised"
    /\ load_pc = "returned" =>
         /\ \A i \in 1..Len(lines) :
               lines[i] \in WellFormedLines =>
                  \E k \in 1..Len(data) :
                     /\ data_src[k] = i
                     /\ data[k] = parse_log_line(strip(lines[i]))
         /\ \A j, k \in 1..Len(data) : j < k => data_src[j] < data_src[k]

\* C2: round trip.  The line generate_log_entry returns is accepted by
\* parse_log_line, and the record has the method, path, status, bytes sent
\* and response time that were drawn and the timestamp to the second.
C2_RoundTrip ==
    entry_pc = "parsed" =>
       /\ IsRecord(entry_parsed)
       /\ entry_parsed.method = entry.method
       /\ entry_parsed.api = entry.endpoint
       /\ entry_parsed.status = entry.status_code
       /\ entry_parsed.bytes_sent = entry.bytes_sent
       /\ entry_parsed.response_time = entry.response_time
       /\ \A f \in {"year", "month", "day", "hour", "minute", "second"} :
             entry_parsed.datetime[f] = entry.timestamp[f]

\* C3: for a requested count N > 0, generate_logs writes exactly N lines,
\* however many timestamps the Poisson draws produced.
C3_ExactlyNumLines ==
    (gen_pc = "done" /\ num_lines > 0) => Len(out_file) = num_lines

BlankCount == Cardinality({i \in 1..Len(lines) : strip(lines[i]) = ""})

\* C4: completeness.  When load_log_data has ended it has returned, and
\* parsed records + recorded failure entries + blank lines skipped is the
\* number of input lines.
C4_Completeness ==
    load_pc \in {"returned", "raised"} =>
       /\ load_pc = "returned"
       /\ Len(data) + Len(failure_entries) + BlankCount = Len(lines)

FullMatch(line) ==
    LET m == re_match(line) IN m.ok /\ m.end = Len(line) + 1

\* C5: parse_log_line yields a record only for a line that matches the
\* whole grammar, from its first character to its last.
C5_RecordOnlyForWholeLine ==
    IsRecord(parsed) => FullMatch(cur_line)

\* C6: a requested size of zero or less makes generate_logs report an error
\* and abort: no output file, no message of a successful generation.
C6_NonPositiveSizeAborts ==
    (num_lines <= 0 /\ gen_pc \in {"done", "raised"}) =>
       /\ gen_pc = "raised"
       /\ out_file = None
       /\ printed = None

Undefined == [undefined |-> TRUE]

\* C7: the summary metrics of a dataset of zero records signal an explicit
\* undefined mean response time and success rate (never 0 or NaN), and
\* having no parsed record raises no unrelated error.
C7_EmptyMetricsUndefined ==
    /\ (dash_pc = "done" /\ filtered_df = <<>>) =>
          /\ metrics.avg_response_time = Undefined
          /\ metrics.success_rate = Undefined
    /\ df = <<>> => dash_exc = "none"

KeptByClaim(rec) ==
    /\ DateLE(date_range[1], DateOf(rec)) /\ DateLE(DateOf(rec), date_range[2])
    /\ rec.status \in sel_status
    /\ rec.method \in sel_methods

\* C8: the filter yields a dataset, which keeps a record iff its date lies
\* in the inclusive range, its status is selected and its method is
\* selected; an empty status or method selection gives size 0; df is left
\* as it was.
C8_FilterKeepsIff ==
    /\ dash_pc = "raised" => dash_exc /= "TypeError"
    /\ dash_pc \in {"metrics", "done"} =>
          /\ filtered_df = SelectSeq(df, KeptByClaim)
          /\ (sel_status = {} \/ sel_methods = {}) => filtered_df = <<>>

\* 08:00 <= time of day <= 18:00
InBusinessBand(t) ==
    LET m == t.min % 1440
    IN  480 <= m /\ (m < 1080 \/ (m = 1080 /\ t.us = 0))

\* C9: the Poisson mean of a minute is 5 iff the minute starts in the band
\* 08:00 to 18:00, and 1 for every minute starting outside it.
C9_MeanFollowsBusinessBand ==
    lam /= None =>
       /\ lam[2] = 5 <=> InBusinessBand(lam[1])
       /\ lam[2] = 1 <=> ~InBusinessBand(lam[1])

NonDecreasing(s) == \A i \in 1..(Len(s) - 1) : ~Before(s[i + 1], s[i])

Count(s, t) == Cardinality({i \in 1..Len(s) : s[i] = t})

\* Each element of s is one of the elements of g, used at most once.
TakenFrom(s, g) == \A i \in 1..Len(s) : Count(s, s[i]) <= Count(g, s[i])

\* C10 as stated: the written timestamps are in non-decreasing order, each
\* is one of the generated timestamps used at most once, and each lies in
\* [end_time - window, end_time).
C10_OrderedWithinHalfOpenWindow ==
    gen_pc = "done" =>
       /\ NonDecreasing(out_file)
       /\ TakenFrom(out_file, generated)
       /\ \A i \in 1..Len(out_file) :
             ~Before(out_file[i], start_time) /\ Before(out_file[i], end_time)

\* C10 amended: the same, with the window closed at end_time: an offset of
\* the last minute that rounds up to 60 s gives end_time itself.
C10_OrderedWithinClosedWindow ==
    gen_pc = "done" =>
       /\ NonDecreasing(out_file)
       /\ TakenFrom(out_file, generated)
       /\ \A i \in 1..Len(out_file) :
             ~Before(out_file[i], start_time) /\ ~Before(end_time, out_file[i])

\* C10 witness: a run that sampled fewer timestamps than were generated and
\* wrote at least two lines, the last at end_time.
C10_DownsampledAndWritten ==
    /\ gen_pc = "done"
    /\ Len(generated) > num_lines
    /\ Len(out_file) >= 2
    /\ out_file[Len(out_file)] = end_time
    /\ Before(out_file[1], out_file[2])

====
